---- MODULE Spec2Model ----
(***************************************************************************)
(* A model of the document lifecycle engine of camouflage                  *)
(* (src/lib/base-document.js): BaseDocument.populate with its per-call     *)
(* load cache, BaseDocument.validate / canonicalize, the save and delete   *)
(* cycles that drive them, the proxy traps with create, fill and toJSON,   *)
(* and MongoClient.delete.                                                 *)
(***************************************************************************)
EXTENDS Integers, Sequences, FiniteSets, TLC

VARIABLES
    \* ---- populate (BaseDocument.populate) ----
    documents,   \* the documents handed to populate, in input order
    schema,      \* the shared schema: field name -> [type, isArray]
    loads,       \* the type.loadById calls issued, in issue order
    loadPromises,\* the derived promises pushed on loadPromises, in push order
    completion,  \* the promise populate returned: none/pending/fulfilled/rejected
    input,       \* the documents as they were when populate was called
    \* ---- validate (BaseDocument.validate on one instance) ----
    inst,        \* the instance: [class, model, keys, schema, values]
    outcome,     \* what the last validate() call did: none / ok / the error thrown
    evaluated,   \* the checks the last validate() call evaluated, in order
    \* ---- save and delete cycles of one document ----
    owner,       \* the document, its embedded documents nested in its values
    ops,         \* the save() and delete() calls made so far, in call order
    events,      \* log of hook invocations, phases and backend calls
    store,       \* the backend collection: <<>> or <<the stored record>>
    \* ---- one instance behind the proxy (create, writes, fill, toJSON) ----
    decl,        \* the field declarations of the model class
    target,      \* the instance: [class, model, keys, schema, values, own]
    json,        \* what the last toJSON() call returned
    copy,        \* the instance the last create(data) call returned
    last,        \* the last call made on the instance and the instance before it
    \* ---- MongoClient.delete ----
    coll,        \* the ids of the records in the collection
    dels,        \* the delete(collection, id) calls made, in call order
    driver       \* the deleteOne calls handed to the driver, in call order

popVars == <<documents, schema, loads, loadPromises, completion, input>>

valVars == <<inst, outcome, evaluated>>

lcVars == <<owner, ops, events, store>>

insVars == <<decl, target, json, copy, last>>

dbVars == <<coll, dels, driver>>

vars == <<documents, schema, loads, loadPromises, completion, input, inst, outcome, evaluated,
          owner, ops, events, store, decl, target, json, copy, last,
          coll, dels, driver>>

----------------------------------------------------------------------------
(* Bounds *)

MaxDocs == 2      \* documents in one populate call
NumIds == 2       \* distinct foreign ids
MaxRefs == 2      \* identifiers held by the documents of one populate call
MaxBound == 1     \* declared min / max bounds range over -MaxBound..MaxBound
MaxNum == 2       \* assigned numbers range over -MaxNum..MaxNum
MaxEmb == 2       \* length of an array-of-embedded field
MaxOps == 2       \* save() / delete() calls on one document

----------------------------------------------------------------------------
(* Values held by reference fields.  An identifier is a string (obj = 0)   *)
(* or an ObjectId instance (obj > 0 is the identity of the JS object).     *)

NullV == [k |-> "null", val |-> 0, obj |-> 0]
IdV(v, o) == [k |-> "id", val |-> v, obj |-> o]
DocV(v) == [k |-> "doc", val |-> v, obj |-> 0]
ArrV(items, ids, has) == [k |-> "arr", items |-> items, idList |-> ids, hasIdList |-> has]

RECURSIVE SeqsUpTo(_, _)
SeqsUpTo(S, n) ==
    IF n = 0 THEN {<<>>}
    ELSE LET shorter == SeqsUpTo(S, n - 1)
         IN shorter \cup {Append(s, x) : s \in {t \in shorter : Len(t) = n - 1}, x \in S}

RECURSIVE Flatten(_)
Flatten(ss) == IF ss = <<>> THEN <<>> ELSE Head(ss) \o Flatten(Tail(ss))

\* validate.isString: typeof value === 'string'
isString(v) == v.k = "id" /\ v.obj = 0

\* MongoClient.isNativeId: an ObjectId instance or a 24-hex-digit string
isNativeId(v) == v.k = "id"

\* JS truthiness of a field value: null and undefined are falsy, arrays,
\* objects and non-empty strings are truthy
Truthy(v) == v.k # "null"

\* the schema keys populate scans, in schema (declaration) order
SchemaKeys == <<"author", "friends">>

\* keyDefs: computed from documents[0] alone
KeyDefs(anInstance, sch) ==
    LET keep(key) == \/ sch[key].isArray
                     \/ /\ isString(anInstance[key]) \/ isNativeId(anInstance[key])
                        /\ ~sch[key].isArray
        kd(key) == [key |-> key, type |-> sch[key].type, isArray |-> sch[key].isArray]
    IN Flatten([i \in 1..Len(SchemaKeys) |->
                    IF keep(SchemaKeys[i]) THEN <<kd(SchemaKeys[i])>> ELSE <<>>])

\* the loadFromCache calls of the two nested forEach loops, in call order
Requests(docs, keyDefs) ==
    LET one(kd, i) ==
            LET v == docs[i][kd.key]
            IN IF kd.isArray /\ Truthy(v)
               THEN [j \in 1..Len(v.items) |->
                        [type |-> kd.type, id |-> v.items[j], doc |-> i,
                         key |-> kd.key, push |-> TRUE]]
               ELSE <<[type |-> kd.type, id |-> v, doc |-> i,
                       key |-> kd.key, push |-> FALSE]>>
    IN Flatten([n \in 1..Len(keyDefs) |->
                    Flatten([i \in 1..Len(docs) |-> one(keyDefs[n], i)])])

\* cache.get(type).get(id): a Map compares keys by SameValueZero, so strings
\* match by value and ObjectId instances by identity
CacheLookup(issued, type, id) ==
    {l \in 1..Len(issued) : issued[l].type = type /\ issued[l].id = id}

\* loadFromCache: <<loads after the call, index of the promise returned>>
loadFromCache(issued, type, id) ==
    LET hit == CacheLookup(issued, type, id)
    IN IF hit # {}
       THEN <<issued, CHOOSE l \in hit : TRUE>>
       ELSE <<Append(issued, [type |-> type, id |-> id, status |-> "inflight"]),
              Len(issued) + 1>>

\* run the requests in order: <<loads, loadPromises>>
RECURSIVE IssueAll(_, _, _)
IssueAll(reqs, issued, proms) ==
    IF reqs = <<>> THEN <<issued, proms>>
    ELSE LET r == Head(reqs)
             got == loadFromCache(issued, r.type, r.id)
         IN IssueAll(Tail(reqs), got[1],
                     Append(proms, [load |-> got[2], doc |-> r.doc, key |-> r.key,
                                    push |-> r.push, status |-> "pending"]))

\* d[key] = []; d[key].idList = idList  for every array keyDef with a truthy value
AfterScan(d, keyDefs) ==
    [key \in DOMAIN d |->
        IF /\ \E n \in 1..Len(keyDefs) : keyDefs[n].key = key /\ keyDefs[n].isArray
           /\ Truthy(d[key])
        THEN ArrV(<<>>, d[key].items, TRUE)
        ELSE d[key]]

\* a Promise.all that waits for every element and ignores rejections
PromiseAllIgnoringRejections(current, proms) ==
    IF current # "pending" THEN current
    ELSE IF \A p \in 1..Len(proms) : proms[p].status # "pending" THEN "fulfilled"
    ELSE "pending"

\* a Promise.all that fulfils with the first element that fulfils
PromiseAllFirstWins(current, proms) ==
    IF current # "pending" THEN current
    ELSE IF \E p \in 1..Len(proms) : proms[p].status = "rejected" THEN "rejected"
    ELSE IF \E p \in 1..Len(proms) : proms[p].status = "fulfilled" THEN "fulfilled"
    ELSE "pending"

\* Promise.all over loadPromises: rejects with the first rejection, fulfils
\* once every element has fulfilled; a settled promise never changes
PromiseAll(current, proms) ==
    IF current # "pending" THEN current
    ELSE IF \E p \in 1..Len(proms) : proms[p].status = "rejected" THEN "rejected"
    ELSE IF \A p \in 1..Len(proms) : proms[p].status = "fulfilled" THEN "fulfilled"
    ELSE "pending"

\* what type.loadById fulfils with for an id
LoadedDoc(id) == IF id.k = "id" THEN DocV(id.val) ELSE NullV

\* the .then callbacks registered on one load promise run in registration order
RECURSIVE RunCallbacks(_, _, _, _)
RunCallbacks(docs, proms, l, data) ==
    IF proms = <<>> THEN docs
    ELSE LET p == Head(proms)
             next == IF p.load # l THEN docs
                     ELSE IF p.push
                     THEN [docs EXCEPT ![p.doc][p.key].items = Append(@, data)]
                     ELSE [docs EXCEPT ![p.doc][p.key] = data]
         IN RunCallbacks(next, Tail(proms), l, data)

----------------------------------------------------------------------------
(* populate: initial states and actions *)

\* identifiers as one backend hands them out: strings (NeDB-style), or one
\* ObjectId instance per slot (records deserialized by the Mongo driver)
RefValue(rep, v, slot) == IF rep = "string" THEN IdV(v, 0) ELSE IdV(v, slot)

\* the number of identifiers a document holds in its reference fields
Slots(d) ==
    (IF d.author.k = "id" THEN 1 ELSE 0)
        + (IF d.friends.k = "arr" THEN Len(d.friends.items) ELSE 0)

\* document i of the input, holding at most b identifiers
DocChoices(rep, i, b) ==
    {[author |-> a, friends |-> f] :
        a \in {NullV} \cup {RefValue(rep, v, 10 * i) : v \in 1..NumIds},
        f \in {NullV} \cup
              {ArrV([j \in 1..Len(s) |-> RefValue(rep, s[j], 10 * i + j)], <<>>, FALSE) :
                    s \in SeqsUpTo(1..NumIds, b)}}

\* inputs of n documents that hold at most b identifiers between them
RECURSIVE DocSeqs(_, _, _)
DocSeqs(rep, n, b) ==
    IF n = 0 THEN {<<>>}
    ELSE UNION {{Append(s, d) : s \in DocSeqs(rep, n - 1, b - Slots(d))} :
                    d \in {c \in DocChoices(rep, n, b) : Slots(c) <= b}}

PopInit ==
    /\ \E rep \in {"string", "object"} : \E n \in 1..MaxDocs :
          documents \in DocSeqs(rep, n, MaxRefs)
    /\ input = documents
    /\ \E t \in {"User", "Group"} :
          schema = [author |-> [type |-> "User", isArray |-> FALSE],
                    friends |-> [type |-> t, isArray |-> TRUE]]
    /\ loads = <<>>
    /\ loadPromises = <<>>
    /\ completion = "none"
    \* no instance is under validation and no save or delete cycle runs
    /\ inst = <<>> /\ outcome = <<>> /\ evaluated = <<>>
    /\ owner = <<>> /\ ops = <<>> /\ events = <<>> /\ store = <<>>
    /\ decl = <<>> /\ target = <<>> /\ json = <<>> /\ copy = <<>> /\ last = <<>>
    /\ coll = {} /\ dels = <<>> /\ driver = <<>>

\* BaseDocument.populate(docs): the synchronous part up to the return
Populate ==
    /\ completion = "none"
    /\ LET keyDefs == KeyDefs(documents[1], schema)
           issued == IssueAll(Requests(documents, keyDefs), <<>>, <<>>)
       IN /\ loads' = issued[1]
          /\ loadPromises' = issued[2]
          /\ documents' = [i \in DOMAIN documents |-> AfterScan(documents[i], keyDefs)]
          /\ completion' = PromiseAll("pending", issued[2])
    /\ UNCHANGED <<schema, input, valVars, lcVars, insVars, dbVars>>

\* one backend load settles; the callbacks chained on it and Promise.all's
\* bookkeeping run as microtasks before any other load can settle
LoadSettles(l, ok) ==
    /\ loads[l].status = "inflight"
    /\ loads' = [loads EXCEPT ![l].status = IF ok THEN "fulfilled" ELSE "rejected"]
    /\ loadPromises' = [p \in DOMAIN loadPromises |->
            IF loadPromises[p].load = l
            THEN [loadPromises[p] EXCEPT !.status = IF ok THEN "fulfilled" ELSE "rejected"]
            ELSE loadPromises[p]]
    /\ documents' = IF ok
                    THEN RunCallbacks(documents, loadPromises, l, LoadedDoc(loads[l].id))
                    ELSE documents
    /\ completion' = PromiseAll(completion, loadPromises')
    /\ UNCHANGED <<schema, input, valVars, lcVars, insVars, dbVars>>

LoadFulfils == \E l \in DOMAIN loads : LoadSettles(l, TRUE)

LoadRejects == \E l \in DOMAIN loads : LoadSettles(l, FALSE)

PopNext == Populate \/ LoadFulfils \/ LoadRejects

SpecPopulate == PopInit /\ [][PopNext]_vars

----------------------------------------------------------------------------
(* Instances and field values of the lifecycle engine.  An instance is     *)
(* [class, keys, schema, values]: keys is the key order of _values, schema *)
(* is _schema and values is _values.                                       *)

Undef == [k |-> "undef", n |-> 0, s |-> ""]
Null == [k |-> "null", n |-> 0, s |-> ""]
Num(n) == [k |-> "num", n |-> n, s |-> ""]
Str(s) == [k |-> "str", n |-> 0, s |-> s]
DateV(n) == [k |-> "date", n |-> n, s |-> ""]
Emb(d) == [k |-> "emb", doc |-> d]
Arr(items) == [k |-> "arr", items |-> items]

\* a schema entry { type: T } with no constraint declared
Field(type, isArr) ==
    [type |-> type, isArray |-> isArr,
     hasMin |-> FALSE, min |-> 0, hasMax |-> FALSE, max |-> 0,
     hasChoices |-> FALSE, choices |-> {}, hasMatch |-> FALSE, match |-> {},
     hasValidate |-> FALSE, accept |-> {}]

Ok == [err |-> "ok", key |-> ""]
Err(kind, key) == [err |-> kind, key |-> key]

\* value.documentClass && value.documentClass() === 'embedded'
isEmbeddedValue(v) == v.k = "emb" /\ v.doc.class = "embedded"

\* validate.isType for one non-array type
isType(v, type) ==
    CASE type = "Number" -> v.k = "num"
      [] type = "String" -> v.k = "str"
      [] type = "Date" -> v.k \in {"date", "num"}
      [] OTHER -> v.k = "emb" /\ v.doc.model = type

\* validate.isValidType: null and undefined are valid for every type; an
\* array type checks every element against the element type
isValidType(v, sch) ==
    IF v.k \in {"null", "undef"} THEN TRUE
    ELSE IF sch.isArray
    THEN v.k = "arr" /\ \A j \in 1..Len(v.items) : isType(v.items[j], sch.type)
    ELSE isType(v, sch.type)

\* validate.isInChoices: no declared choices admits everything
isInChoices(sch, v) == ~sch.hasChoices \/ v \in sch.choices

\* JS truthiness of a declared numeric bound: 0 is falsy
BoundTruthy(has, b) == has /\ b # 0

\* JS value < bound and value > bound after ToNumber: null is 0, undefined
\* and non-numeric strings and objects are NaN, for which both are false
JSLess(v, b) ==
    CASE v.k \in {"num", "date"} -> v.n < b
      [] v.k = "null" -> 0 < b
      [] OTHER -> FALSE

JSGreater(v, b) ==
    CASE v.k \in {"num", "date"} -> v.n > b
      [] v.k = "null" -> 0 > b
      [] OTHER -> FALSE

\* the checks of validate() on one value that is not an embedded document,
\* in the order of the code; the first failing check throws
CheckValue(sch, key, v) ==
    IF ~isValidType(v, sch) THEN Err("type", key)
    ELSE IF sch.hasMatch /\ v.k = "str" /\ v.s \notin sch.match THEN Err("match", key)
    ELSE IF ~isInChoices(sch, v) THEN Err("choices", key)
    ELSE IF BoundTruthy(sch.hasMin, sch.min) /\ JSLess(v, sch.min) THEN Err("min", key)
    ELSE IF BoundTruthy(sch.hasMax, sch.max) /\ JSGreater(v, sch.max) THEN Err("max", key)
    ELSE IF sch.hasValidate /\ v \notin sch.accept THEN Err("custom", key)
    ELSE Ok

\* BaseDocument.validate: every key of _values in order; an embedded document
\* validates itself and the other checks are skipped for that key
RECURSIVE validate(_)
RECURSIVE ValidateKeys(_, _)
ValidateKeys(d, i) ==
    IF i > Len(d.keys) THEN Ok
    ELSE LET key == d.keys[i]
             v == d.values[key]
             r == IF isEmbeddedValue(v) THEN validate(v.doc)
                  ELSE CheckValue(d.schema[key], key, v)
         IN IF r.err # "ok" THEN r ELSE ValidateKeys(d, i + 1)

validate(d) == ValidateKeys(d, 1)

\* the checks of validate() in the order of the code
CheckOrder == <<"type", "match", "choices", "min", "max", "custom">>

\* whether validate() evaluates the test of a check once it has reached it:
\* the pattern is tested on strings when a pattern is declared, a bound is
\* compared when it is truthy, the custom predicate is called when it is a
\* function
Tested(check, sch, v) ==
    CASE check = "match" -> sch.hasMatch /\ v.k = "str"
      [] check = "min" -> BoundTruthy(sch.hasMin, sch.min)
      [] check = "max" -> BoundTruthy(sch.hasMax, sch.max)
      [] check = "custom" -> sch.hasValidate
      [] OTHER -> TRUE

\* whether the test of a check throws
Throws(check, sch, v) ==
    CASE check = "type" -> ~isValidType(v, sch)
      [] check = "match" -> v.s \notin sch.match
      [] check = "choices" -> ~isInChoices(sch, v)
      [] check = "min" -> JSLess(v, sch.min)
      [] check = "max" -> JSGreater(v, sch.max)
      [] OTHER -> v \notin sch.accept

\* the checks validate() evaluates on one value that is not an embedded
\* document, from check i on: up to and including the first that throws
RECURSIVE EvaluatedFrom(_, _, _)
EvaluatedFrom(i, sch, v) ==
    IF i > Len(CheckOrder) THEN <<>>
    ELSE IF ~Tested(CheckOrder[i], sch, v) THEN EvaluatedFrom(i + 1, sch, v)
    ELSE IF Throws(CheckOrder[i], sch, v) THEN <<CheckOrder[i]>>
    ELSE <<CheckOrder[i]>> \o EvaluatedFrom(i + 1, sch, v)

\* the checks validate() evaluates on the field f of an instance
Evaluated(d) ==
    IF isEmbeddedValue(d.values["f"]) THEN <<>>
    ELSE EvaluatedFrom(1, d.schema["f"], d.values["f"])

\* schemaProxyHandler.set for a key of the schema
ProxySet(d, key, v) == [d EXCEPT !.values[key] = v]

----------------------------------------------------------------------------
(* validate on one instance with one declared field f *)

NoOutcome == [err |-> "none", key |-> ""]

\* an instance as create() leaves it: generateSchema assigns getDefault(k),
\* undefined when no default is declared
Created(class, model, keys, sch) ==
    [class |-> class, model |-> model, keys |-> keys, schema |-> sch,
     values |-> [key \in DOMAIN sch |-> Undef]]

\* Money: an embedded model { num: { type: Number, max: MaxBound } }
MoneyDoc(v) ==
    ProxySet(Created("embedded", "Money", <<"num">>,
                     [num |-> [Field("Number", FALSE) EXCEPT
                                  !.hasMax = TRUE, !.max = MaxBound]]),
             "num", v)

NumberFields ==
    {[Field("Number", FALSE) EXCEPT
         !.hasMin = (lo # -MaxBound - 1), !.min = IF lo = -MaxBound - 1 THEN 0 ELSE lo,
         !.hasMax = (hi # -MaxBound - 1), !.max = IF hi = -MaxBound - 1 THEN 0 ELSE hi,
         !.hasChoices = ch, !.choices = IF ch THEN {Num(0), Num(1)} ELSE {},
         !.hasValidate = cu,
         !.accept = IF cu THEN {Num(n) : n \in 0..MaxNum} ELSE {}] :
        lo \in (-MaxBound - 1)..MaxBound, hi \in (-MaxBound - 1)..MaxBound,
        ch \in BOOLEAN, cu \in BOOLEAN}

StringFields ==
    {[Field("String", FALSE) EXCEPT
         !.hasMatch = m, !.match = IF m THEN {"a"} ELSE {},
         !.hasChoices = ch, !.choices = IF ch THEN {Str("a")} ELSE {}] :
        m \in BOOLEAN, ch \in BOOLEAN}

ValFields == NumberFields \cup StringFields \cup {Field("Money", FALSE)}

ValValues ==
    {Undef, Null, Str("a"), Str("b")} \cup {Num(n) : n \in -MaxNum..MaxNum}
        \cup {Emb(MoneyDoc(Num(n))) : n \in {0, MaxBound + 1}}

ValInit ==
    /\ \E sch \in ValFields :
          inst = Created("document", "Model", <<"f">>, [f |-> sch])
    /\ outcome = NoOutcome
    /\ evaluated = <<>>
    \* populate is not called and no save or delete cycle runs
    /\ documents = <<>> /\ input = <<>> /\ schema = <<>>
    /\ loads = <<>> /\ loadPromises = <<>> /\ completion = "none"
    /\ owner = <<>> /\ ops = <<>> /\ events = <<>> /\ store = <<>>
    /\ decl = <<>> /\ target = <<>> /\ json = <<>> /\ copy = <<>> /\ last = <<>>
    /\ coll = {} /\ dels = <<>> /\ driver = <<>>

\* instance.f = v through the proxy
Assign ==
    \E v \in ValValues :
        /\ inst' = ProxySet(inst, "f", v)
        /\ outcome' = NoOutcome
        /\ evaluated' = <<>>
        /\ UNCHANGED <<popVars, lcVars, insVars, dbVars>>

\* instance.validate()
Validate ==
    /\ outcome = NoOutcome
    /\ outcome' = validate(inst)
    /\ evaluated' = Evaluated(inst)
    /\ UNCHANGED <<inst, popVars, lcVars, insVars, dbVars>>

ValNext == Assign \/ Validate

SpecValidate == ValInit /\ [][ValNext]_vars

----------------------------------------------------------------------------
(* The save and delete cycles of one document (Document.save and           *)
(* Document.delete), which drive validate, canonicalize, the hooks and the *)
(* backend.                                                                *)

\* validate.isNumber
isNumber(v) == v.k = "num"

\* a canonicalize that takes the timestamp of a Date field for seconds and
\* converts a Date it finds there again
RECURSIVE canonicalize(_)
canonicalizeSeconds(d) ==
    [d EXCEPT !.values =
        [key \in DOMAIN d.values |->
            LET v == d.values[key]
            IN IF d.schema[key].type = "Date" /\ ~d.schema[key].isArray
                    /\ v.k \in {"num", "date"}
               THEN DateV(v.n * 1000)
               ELSE IF isEmbeddedValue(v) THEN Emb(canonicalize(v.doc))
               ELSE v]]

\* BaseDocument.canonicalize: a numeric timestamp in a Date field becomes a
\* Date; an embedded document canonicalizes itself
canonicalize(d) ==
    [d EXCEPT !.values =
        [key \in DOMAIN d.values |->
            LET v == d.values[key]
            IN IF d.schema[key].type = "Date" /\ ~d.schema[key].isArray /\ isNumber(v)
               THEN DateV(v.n)
               ELSE IF isEmbeddedValue(v) THEN Emb(canonicalize(v.doc))
               ELSE v]]

\* one step of the path from the document to an embedded document: field f,
\* element i of an array field (0 for a single field)
Step(f, i) == [f |-> f, i |-> i]

\* the hook cascade in reverse array order
RECURSIVE CascadeArraysReversed(_, _)
CascadeArraysReversed(d, path) ==
    Flatten([n \in 1..Len(d.keys) |->
        LET key == d.keys[n]
            v == d.values[key]
        IN IF v.k = "emb" THEN CascadeArraysReversed(v.doc, Append(path, Step(key, 0)))
           ELSE IF v.k = "arr"
           THEN Flatten([j \in 1..Len(v.items) |->
                    LET e == Len(v.items) + 1 - j
                    IN IF v.items[e].k = "emb"
                       THEN CascadeArraysReversed(v.items[e].doc, Append(path, Step(key, e)))
                       ELSE <<>>])
           ELSE <<>>]) \o <<path>>

\* the hook cascade that leaves out the elements of array fields
RECURSIVE CascadeSingleFieldsOnly(_, _)
CascadeSingleFieldsOnly(d, path) ==
    Flatten([n \in 1..Len(d.keys) |->
        LET key == d.keys[n]
            v == d.values[key]
        IN IF v.k = "emb" THEN CascadeSingleFieldsOnly(v.doc, Append(path, Step(key, 0)))
           ELSE <<>>]) \o <<path>>

\* the hook cascade: the documents a hook runs on, in order: depth-first
\* over the embedded documents reachable from d, fields in schema order and
\* array elements in index order, then d itself
RECURSIVE Cascade(_, _)
Cascade(d, path) ==
    Flatten([n \in 1..Len(d.keys) |->
        LET key == d.keys[n]
            v == d.values[key]
        IN IF v.k = "emb" THEN Cascade(v.doc, Append(path, Step(key, 0)))
           ELSE IF v.k = "arr"
           THEN Flatten([j \in 1..Len(v.items) |->
                    IF v.items[j].k = "emb"
                    THEN Cascade(v.items[j].doc, Append(path, Step(key, j)))
                    ELSE <<>>])
           ELSE <<>>]) \o <<path>>

Ev(k, ev, path) == [op |-> k, ev |-> ev, path |-> path]

\* one hook run on every document of the cascade
Hooks(k, hook, L) == [i \in 1..Len(L) |-> Ev(k, hook, L[i])]

HookNames == {"preValidate", "postValidate", "preSave", "postSave", "preDelete", "postDelete"}

\* a save cycle that canonicalizes before it validates and runs preSave
\* before postValidate
SaveStepsShuffled(k, L) ==
    Hooks(k, "preValidate", L) \o <<Ev(k, "canonicalize", <<>>)>>
        \o Hooks(k, "preSave", L) \o <<Ev(k, "validate", <<>>)>>
        \o Hooks(k, "postValidate", L) \o <<Ev(k, "persist", <<>>)>>

\* the steps of save() up to the backend call, in order
SaveSteps(k, L) ==
    Hooks(k, "preValidate", L) \o <<Ev(k, "validate", <<>>)>>
        \o Hooks(k, "postValidate", L) \o <<Ev(k, "canonicalize", <<>>)>>
        \o Hooks(k, "preSave", L) \o <<Ev(k, "persist", <<>>)>>

\* a delete cycle that calls the backend before the preDelete hooks
DeleteStepsBackendFirst(k, L) == <<Ev(k, "delete", <<>>)>> \o Hooks(k, "preDelete", L)

\* the steps of delete() up to the backend call, in order
DeleteSteps(k, L) == Hooks(k, "preDelete", L) \o <<Ev(k, "delete", <<>>)>>

\* the step that throws, 0 when none does: the hook chosen to raise, or
\* validate() when the document is invalid, whichever comes first
FailPos(steps, raisePos, invalid) ==
    LET valPos == IF invalid /\ \E i \in 1..Len(steps) : steps[i].ev = "validate"
                  THEN CHOOSE i \in 1..Len(steps) : steps[i].ev = "validate"
                  ELSE 0
    IN IF raisePos = 0 THEN valPos
       ELSE IF valPos = 0 THEN raisePos
       ELSE IF raisePos < valPos THEN raisePos ELSE valPos

\* a cycle that carries on after a step has thrown
ExecutedIgnoringFailure(steps, failPos) == steps

\* the steps that run: all of them, or those up to the one that throws
Executed(steps, failPos) == IF failPos = 0 THEN steps ELSE SubSeq(steps, 1, failPos)

HookPositions(steps) == {i \in 1..Len(steps) : steps[i].ev \in HookNames}

\* a call: doc and storeBefore are the document and the stored record as
\* they were when the call was made
Call(kind, status, failedAt) ==
    [kind |-> kind, status |-> status, failedAt |-> failedAt,
     doc |-> owner, storeBefore |-> store]

\* the embedded models of the tests: Money { num: { type: Number, max } }
\* and a Purse holding one Money
PurseDoc(v) ==
    ProxySet(Created("embedded", "Purse", <<"inner">>, [inner |-> Field("Money", FALSE)]),
             "inner", v)

OwnerDoc(emb, purse, contents, when) ==
    [class |-> "document", model |-> "Wallet",
     keys |-> <<"emb", "purse", "contents", "when">>,
     schema |-> [emb |-> Field("Money", FALSE), purse |-> Field("Purse", FALSE),
                 contents |-> Field("Money", TRUE), when |-> Field("Date", FALSE)],
     values |-> [emb |-> emb, purse |-> purse, contents |-> contents, when |-> when]]

\* Money instances whose num is within and above the declared max
MoneyChoices == {Emb(MoneyDoc(Num(n))) : n \in {0, MaxBound + 1}}

LcInit ==
    /\ \E emb \in {Undef} \cup MoneyChoices,
          purse \in {Undef, Emb(PurseDoc(Emb(MoneyDoc(Num(0)))))},
          contents \in {Arr(items) : items \in SeqsUpTo(MoneyChoices, MaxEmb)} :
              owner = OwnerDoc(emb, purse, contents, Num(1))
    /\ ops = <<>>
    /\ events = <<>>
    /\ store = <<>>
    \* populate is not called and no other instance is under validation
    /\ documents = <<>> /\ input = <<>> /\ schema = <<>>
    /\ loads = <<>> /\ loadPromises = <<>> /\ completion = "none"
    /\ inst = <<>> /\ outcome = <<>> /\ evaluated = <<>>
    /\ decl = <<>> /\ target = <<>> /\ json = <<>> /\ copy = <<>> /\ last = <<>>
    /\ coll = {} /\ dels = <<>> /\ driver = <<>>

NoCallPending == \A k \in DOMAIN ops : ops[k].status # "pending"

\* owner.emb = v through the proxy, between two calls
SetEmb ==
    /\ Len(ops) < MaxOps
    /\ NoCallPending
    /\ \E v \in {Undef} \cup MoneyChoices : owner' = ProxySet(owner, "emb", v)
    /\ UNCHANGED <<ops, events, store, popVars, valVars, insVars, dbVars>>

\* document.save(): the synchronous run up to the backend save
Save ==
    /\ Len(ops) < MaxOps
    /\ NoCallPending
    /\ LET k == Len(ops) + 1
           steps == SaveSteps(k, Cascade(owner, <<>>))
       IN \E raisePos \in {0} \cup HookPositions(steps) :
            LET failPos == FailPos(steps, raisePos, validate(owner).err # "ok")
                ran == Executed(steps, failPos)
            IN /\ events' = events \o ran
               /\ owner' = IF \E i \in 1..Len(ran) : ran[i].ev = "canonicalize"
                           THEN canonicalize(owner) ELSE owner
               /\ ops' = Append(ops,
                            IF failPos = 0 THEN Call("save", "pending", "")
                            ELSE Call("save", "rejected", steps[failPos].ev))
    /\ UNCHANGED <<store, popVars, valVars, insVars, dbVars>>

\* the backend save succeeds: the record is stored and the postSave hooks run
BackendSaveOk ==
    /\ ops # <<>>
    /\ ops[Len(ops)].kind = "save" /\ ops[Len(ops)].status = "pending"
    /\ LET k == Len(ops)
           steps == Hooks(k, "postSave", Cascade(owner, <<>>))
       IN \E raisePos \in {0} \cup HookPositions(steps) :
            /\ events' = events \o Executed(steps, raisePos)
            /\ ops' = [ops EXCEPT ![k].status = IF raisePos = 0 THEN "fulfilled" ELSE "rejected",
                                  ![k].failedAt = IF raisePos = 0 THEN "" ELSE "postSave"]
    /\ store' = <<owner.values>>
    /\ UNCHANGED <<owner, popVars, valVars, insVars, dbVars>>

\* the backend save fails: the error reaches the caller unchanged
BackendSaveFails ==
    /\ ops # <<>>
    /\ ops[Len(ops)].kind = "save" /\ ops[Len(ops)].status = "pending"
    /\ ops' = [ops EXCEPT ![Len(ops)].status = "rejected", ![Len(ops)].failedAt = "persist"]
    /\ UNCHANGED <<owner, events, store, popVars, valVars, insVars, dbVars>>

\* document.delete(): the synchronous run up to the backend delete
Delete ==
    /\ Len(ops) < MaxOps
    /\ NoCallPending
    /\ LET k == Len(ops) + 1
           steps == DeleteSteps(k, Cascade(owner, <<>>))
       IN \E raisePos \in {0} \cup HookPositions(steps) :
            LET failPos == FailPos(steps, raisePos, FALSE)
            IN /\ events' = events \o Executed(steps, failPos)
               /\ ops' = Append(ops,
                            IF failPos = 0 THEN Call("delete", "pending", "")
                            ELSE Call("delete", "rejected", steps[failPos].ev))
    /\ UNCHANGED <<owner, store, popVars, valVars, insVars, dbVars>>

\* the backend delete succeeds: the record is gone and the postDelete hooks run
BackendDeleteOk ==
    /\ ops # <<>>
    /\ ops[Len(ops)].kind = "delete" /\ ops[Len(ops)].status = "pending"
    /\ LET k == Len(ops)
           steps == Hooks(k, "postDelete", Cascade(owner, <<>>))
       IN \E raisePos \in {0} \cup HookPositions(steps) :
            /\ events' = events \o Executed(steps, raisePos)
            /\ ops' = [ops EXCEPT ![k].status = IF raisePos = 0 THEN "fulfilled" ELSE "rejected",
                                  ![k].failedAt = IF raisePos = 0 THEN "" ELSE "postDelete"]
    /\ store' = <<>>
    /\ UNCHANGED <<owner, popVars, valVars, insVars, dbVars>>

\* the backend delete fails
BackendDeleteFails ==
    /\ ops # <<>>
    /\ ops[Len(ops)].kind = "delete" /\ ops[Len(ops)].status = "pending"
    /\ ops' = [ops EXCEPT ![Len(ops)].status = "rejected", ![Len(ops)].failedAt = "delete"]
    /\ UNCHANGED <<owner, events, store, popVars, valVars, insVars, dbVars>>

LcNext ==
    \/ SetEmb
    \/ Save \/ BackendSaveOk \/ BackendSaveFails
    \/ Delete \/ BackendDeleteOk \/ BackendDeleteFails

SpecLifecycle == LcInit /\ [][LcNext]_vars

----------------------------------------------------------------------------
(* One instance behind the proxy: create, property writes and deletes,     *)
(* fill, toJSON and canonicalize.  The instance is [class, model, keys,    *)
(* schema, values, own]: schema is _schema, values is _values with keys    *)
(* its key order, and own holds the other own properties of the target     *)
(* object.                                                                 *)

\* a string of 24 hex digits, and an ObjectId instance, of identifier n
Hex(n) == [k |-> "hex", n |-> n, s |-> ""]
Oid(n) == [k |-> "oid", n |-> n, s |-> ""]

\* a function that returns the number n when called (a default factory)
Fn(n) == [k |-> "fn", n |-> n, s |-> ""]

\* the type declaration a constructor assigns to this.<field>, which stays
\* an own property of the target object
DeclV == [k |-> "decl", n |-> 0, s |-> ""]

\* a plain data object with the given keys, in key order
Obj(keys, map) == [k |-> "obj", keys |-> keys, map |-> map]

\* a schema entry { type, default?, private? }
Decl(type, isArr, hasDefault, def, private) ==
    [type |-> type, isArray |-> isArr,
     hasMin |-> FALSE, min |-> 0, hasMax |-> FALSE, max |-> 0,
     hasChoices |-> FALSE, choices |-> {}, hasMatch |-> FALSE, match |-> {},
     hasValidate |-> FALSE, accept |-> {},
     hasDefault |-> hasDefault, default |-> def, private |-> private]

\* JS truthiness of a value: undefined, null, 0 and '' are falsy
JSTruthy(v) ==
    ~ \/ v.k \in {"undef", "null"}
      \/ v.k = "num" /\ v.n = 0
      \/ v.k = "str" /\ v.s = ""

\* obj[key] = v and delete obj[key] on a map from property names to values
Put(f, key, v) == [x \in DOMAIN f \cup {key} |-> IF x = key THEN v ELSE f[x]]
Drop(f, key) == [x \in DOMAIN f \ {key} |-> f[x]]

\* the key order of an object after obj[key] = v and after delete obj[key]
PutKey(keys, key) ==
    IF \E i \in 1..Len(keys) : keys[i] = key THEN keys ELSE Append(keys, key)
DropKey(keys, key) ==
    LET other(x) == x # key
    IN SelectSeq(keys, other)

\* target._values[key] = v
SetValue(d, key, v) ==
    [d EXCEPT !.values = Put(d.values, key, v), !.keys = PutKey(d.keys, key)]

\* MongoClient.isNativeId: an ObjectId instance or a string of 24 hex digits
isNativeIdValue(v) == v.k \in {"oid", "hex"}

\* BaseDocument.getDefault: the declared default, a factory being called
getDefault(d, schemaProp) ==
    IF schemaProp \in DOMAIN d.schema /\ d.schema[schemaProp].hasDefault
    THEN LET def == d.schema[schemaProp].default
         IN IF def.k = "fn" THEN Num(def.n) ELSE def
    ELSE IF schemaProp = "_id" THEN Null
    ELSE Undef

\* the nativeIdType of the backend
NativeIdType == "ObjectId"

\* new Model(): the BaseDocument constructor, then the model's constructor
\* assigns a type declaration to this.<field> for every declared field;
\* proto is the getters the model class defines on its prototype
Construct(class, model, fields, getters) ==
    [class |-> class, model |-> model, proto |-> getters, keys |-> <<>>,
     schema |-> [x \in {"_id"} |-> Decl(NativeIdType, FALSE, FALSE, Undef, FALSE)],
     values |-> <<>>,
     own |-> [x \in {fields[i] : i \in 1..Len(fields)} |-> DeclV]]

\* BaseDocument.generateSchema: for every own key that does not start with
\* an underscore, in key order, the schema entry and the default
RECURSIVE generateSchema(_, _, _)
generateSchema(d, fields, decls) ==
    IF fields = <<>> THEN d
    ELSE LET key == Head(fields)
             withSchema == [d EXCEPT !.schema = Put(d.schema, key, decls[key])]
             def == getDefault(withSchema, key)
             v == IF decls[key].isArray
                  THEN IF JSTruthy(def) THEN def ELSE Arr(<<>>)
                  ELSE def
         IN generateSchema(SetValue(withSchema, key, v), Tail(fields), decls)

\* Model._instantiate
Instantiate(m) ==
    generateSchema(Construct(m.class, m.model, m.fields, m.getters), m.fields, m.decls)

\* what a getter of a model class computes
GetterValue == Str("computed")

\* schemaProxyHandler.get
ProxyGet(d, propKey) ==
    IF propKey \in DOMAIN d.values THEN d.values[propKey]
    ELSE IF propKey = "id"
    THEN IF "_id" \in DOMAIN d.values THEN d.values["_id"] ELSE Undef
    ELSE IF propKey \in DOMAIN d.own THEN d.own[propKey]
    ELSE IF propKey \in d.proto THEN GetterValue
    ELSE Undef

\* a set trap that stores a write to id under the name id
ProxyWriteNoAlias(d, propKey, v) ==
    IF propKey \in DOMAIN d.schema \/ propKey = "id"
    THEN [doc |-> SetValue(d, propKey, v), thrown |-> FALSE]
    ELSE IF propKey \in d.proto THEN [doc |-> d, thrown |-> TRUE]
    ELSE [doc |-> [d EXCEPT !.own = Put(d.own, propKey, v)], thrown |-> FALSE]

\* schemaProxyHandler.set, as an assignment in strict-mode code: a schema
\* key goes to _values, id to _values._id, anything else to the target
\* object, where a getter without a setter refuses the write and the
\* assignment throws a TypeError
ProxyWrite(d, propKey, v) ==
    IF propKey \in DOMAIN d.schema
    THEN [doc |-> SetValue(d, propKey, v), thrown |-> FALSE]
    ELSE IF propKey = "id"
    THEN [doc |-> SetValue(d, "_id", v), thrown |-> FALSE]
    ELSE IF propKey \in d.proto THEN [doc |-> d, thrown |-> TRUE]
    ELSE [doc |-> [d EXCEPT !.own = Put(d.own, propKey, v)], thrown |-> FALSE]

\* schemaProxyHandler.deleteProperty
ProxyDelete(d, propKey) ==
    [d EXCEPT !.schema = Drop(d.schema, propKey),
              !.values = Drop(d.values, propKey),
              !.keys = DropKey(d.keys, propKey)]

\* schemaProxyHandler.has; id is an accessor of BaseDocument.prototype
ProxyHas(d, propKey) ==
    \/ propKey \in DOMAIN d.schema
    \/ propKey \in DOMAIN d.own
    \/ propKey \in d.proto \cup {"id"}

\* the elements of a set of names, in some fixed order
RECURSIVE SetToSeq(_)
SetToSeq(S) ==
    IF S = {} THEN <<>>
    ELSE LET x == CHOOSE y \in S : TRUE
         IN <<x>> \o SetToSeq(S \ {x})

\* the keys of the object toJSON returns, in key order: the keys of _values,
\* then the schema keys it adds, then the prototype's properties
JsonKeys(d) ==
    LET shown(key) == ~(key \in DOMAIN d.schema /\ d.schema[key].private)
        added == {key \in DOMAIN d.schema : key \notin DOMAIN d.values /\ shown(key)}
    IN SelectSeq(d.keys, shown) \o SetToSeq(added) \o SetToSeq(d.proto)

\* a toJSON that returns the copy of _values as it is, private fields left out
toJSONValuesOnly(d) ==
    LET shown(key) == ~(key \in DOMAIN d.schema /\ d.schema[key].private)
        keys == SelectSeq(d.keys, shown)
    IN Obj(keys, [key \in {keys[i] : i \in 1..Len(keys)} |-> d.values[key]])

\* BaseDocument.toJSON: a copy of _values without the private fields, an
\* undefined schema field as [] when its type is an array and as null
\* otherwise, and the properties of the class prototype read through the
\* proxy
toJSON(d) ==
    LET out(key) ==
            IF key \in d.proto THEN ProxyGet(d, key)
            ELSE IF key \in DOMAIN d.values /\ d.values[key].k # "undef" THEN d.values[key]
            ELSE IF key \notin DOMAIN d.schema THEN Undef
            ELSE IF d.schema[key].isArray THEN Arr(<<>>)
            ELSE Null
        keys == JsonKeys(d)
    IN Obj(keys, [key \in {keys[i] : i \in 1..Len(keys)} |-> out(key)])

\* the embedded model of the tests: Coin { value: { type: Number, default:
\* 100 }, at: Date }
CoinModel ==
    [class |-> "embedded", model |-> "Coin", fields |-> <<"value", "at">>,
     decls |-> [value |-> Decl("Number", FALSE, TRUE, Num(100), FALSE),
                at |-> Decl("Date", FALSE, FALSE, Undef, FALSE)],
     getters |-> {}]

\* the types whose prototype is a BaseDocument
ModelTypes == {"Coin"}

\* the backend's toNativeId: the ObjectId of a string of 24 hex digits
toNativeId(v) == IF v.k = "hex" THEN Oid(v.n) ELSE v

\* typeof value === 'object', for a value that is neither null nor undefined
TypeofObject(v) == v.k \in {"obj", "arr", "emb", "date", "oid"}

\* a fill that resets to its default every field newValues does not name
RECURSIVE fillReplacing(_, _)

\* BaseDocument.fill: <<the instance, whether the call threw>>
RECURSIVE fill(_, _)
RECURSIVE FillKeys(_, _, _)
RECURSIVE fromData(_, _)

\* Model._fromData for the embedded model: one instance per element of an
\* array, one instance otherwise
fromData(type, datas) ==
    LET single(x) == fill(Instantiate(CoinModel), x)
    IN IF datas.k = "arr"
       THEN [value |-> Arr([j \in 1..Len(datas.items) |-> Emb(single(datas.items[j]).doc)]),
             thrown |-> \E j \in 1..Len(datas.items) : single(datas.items[j]).thrown]
       ELSE [value |-> Emb(single(datas).doc), thrown |-> single(datas).thrown]

\* one round of the loop of fill over the keys of newValues
FillKey(d, key, value) ==
    IF key \in DOMAIN d.schema
    THEN IF d.schema[key].type \in ModelTypes
         THEN IF value.k \in {"null", "undef"}
              THEN [doc |-> SetValue(d, key, value), thrown |-> FALSE]
              ELSE IF key \in DOMAIN d.values /\ d.values[key].k = "emb"
              THEN LET r == fill(d.values[key].doc, value)
                   IN [doc |-> SetValue(d, key, Emb(r.doc)), thrown |-> r.thrown]
              ELSE IF TypeofObject(value) /\ ~isNativeIdValue(value)
              THEN LET r == fromData(d.schema[key].type, value)
                   IN [doc |-> IF r.thrown THEN d ELSE SetValue(d, key, r.value),
                       thrown |-> r.thrown]
              ELSE [doc |-> SetValue(d, key, value), thrown |-> FALSE]
         ELSE IF key \in {"_id", "id"}
         THEN [doc |-> SetValue(d, key, toNativeId(value)), thrown |-> FALSE]
         ELSE [doc |-> SetValue(d, key, value), thrown |-> FALSE]
    ELSE IF ProxyHas(d, key) THEN ProxyWrite(d, key, value)
    ELSE [doc |-> d, thrown |-> FALSE]

FillKeys(d, keys, map) ==
    IF keys = <<>> THEN [doc |-> d, thrown |-> FALSE]
    ELSE LET r == FillKey(d, Head(keys), map[Head(keys)])
         IN IF r.thrown THEN r ELSE FillKeys(r.doc, Tail(keys), map)

fillReplacing(d, newValues) ==
    IF newValues.k = "obj"
    THEN LET named == {newValues.keys[i] : i \in 1..Len(newValues.keys)}
             reset == [d EXCEPT !.values =
                          [key \in DOMAIN d.values |->
                              IF key \in named THEN d.values[key] ELSE getDefault(d, key)]]
         IN FillKeys(reset, newValues.keys, newValues.map)
    ELSE IF isNativeIdValue(newValues)
    THEN [doc |-> SetValue(d, "_id", newValues), thrown |-> FALSE]
    ELSE [doc |-> d, thrown |-> FALSE]

fill(d, newValues) ==
    IF newValues.k \in {"null", "undef"} THEN [doc |-> d, thrown |-> FALSE]
    ELSE IF isNativeIdValue(newValues)
    THEN [doc |-> SetValue(d, "_id", newValues), thrown |-> FALSE]
    ELSE IF newValues.k = "obj" THEN FillKeys(d, newValues.keys, newValues.map)
    \* an instance handed in as data: its own keys are _schema, _values and
    \* the declared fields, so the target takes over its schema and values
    ELSE IF newValues.k = "emb"
    THEN [doc |-> [d EXCEPT !.schema = newValues.doc.schema,
                            !.values = newValues.doc.values,
                            !.keys = newValues.doc.keys],
          thrown |-> FALSE]
    \* a number, a string, a Date or an array has no key the instance knows
    ELSE [doc |-> d, thrown |-> FALSE]

\* Model.create(data) for one record
fromDataSingle(m, data) == fill(Instantiate(m), data)

----------------------------------------------------------------------------
(* create, toJSON, create(data) and canonicalize on one instance of a      *)
(* document model                                                          *)

\* a model class of the tests: a Purse with a number, a date, an array of
\* strings, a string that may be private, an embedded Coin and an array of
\* Coins; def is absent (undefined) or the declared default
PurseModel(numDef, tagsDef, private, getters) ==
    [class |-> "document", model |-> "Purse",
     fields |-> <<"num", "when", "tags", "secret", "coin", "contents">>,
     decls |-> [num |-> Decl("Number", FALSE, numDef # Undef, numDef, FALSE),
                when |-> Decl("Date", FALSE, FALSE, Undef, FALSE),
                tags |-> Decl("String", TRUE, tagsDef # Undef, tagsDef, FALSE),
                secret |-> Decl("String", FALSE, FALSE, Undef, private),
                coin |-> Decl("Coin", FALSE, FALSE, Undef, FALSE),
                contents |-> Decl("Coin", TRUE, FALSE, Undef, FALSE)],
     getters |-> getters]

\* the declarations the model class may carry: no default, a literal or a
\* factory for num; no default, a literal array or a literal null for tags
PurseModels ==
    {PurseModel(numDef, tagsDef, private, getters) :
        numDef \in {Undef, Num(0), Fn(1)},
        tagsDef \in {Undef, Arr(<<Str("a")>>), Null},
        private \in BOOLEAN,
        getters \in {{}, {"label"}}}

\* Coin.create(), then optionally coin.at = a timestamp
Coins ==
    {Emb(Instantiate(CoinModel)),
     Emb(ProxyWrite(Instantiate(CoinModel), "at", Num(1)).doc)}

\* assignments through the proxy, one per element of writes
RECURSIVE WriteAll(_, _)
WriteAll(d, writes) ==
    IF writes = <<>> THEN d
    ELSE WriteAll(ProxyWrite(d, Head(writes)[1], Head(writes)[2]).doc, Tail(writes))

\* for every field, no assignment or one of a few values of the field's type
FieldWrites ==
    LET opt(key, vals) == {<<>>} \cup {<<(<<key, v>>)>> : v \in vals}
    IN {n \o w \o t \o x \o c \o cs :
            n \in opt("num", {Null, Num(1)}),
            w \in opt("when", {Num(1), DateV(1)}),
            t \in opt("tags", {Undef}),
            x \in opt("secret", {Str("a")}),
            c \in opt("coin", Coins),
            cs \in opt("contents", {Arr(<<e>>) : e \in Coins})}

NoCall == [op |-> "create", prevOp |-> "", n |-> 0, before |-> <<>>]

SerInit ==
    /\ decl \in PurseModels
    /\ \E writes \in FieldWrites :
          /\ target = WriteAll(Instantiate(decl), writes)
          /\ last = [NoCall EXCEPT !.op = IF writes = <<>> THEN "create" ELSE "write"]
    /\ json = <<>>
    /\ copy = <<>>
    \* populate is not called, no save or delete cycle runs, no backend call
    /\ documents = <<>> /\ input = <<>> /\ schema = <<>>
    /\ loads = <<>> /\ loadPromises = <<>> /\ completion = "none"
    /\ inst = <<>> /\ outcome = <<>> /\ evaluated = <<>>
    /\ owner = <<>> /\ ops = <<>> /\ events = <<>> /\ store = <<>>
    /\ coll = {} /\ dels = <<>> /\ driver = <<>>

\* instance.toJSON()
ToJSON ==
    /\ last.op \in {"create", "write", "canonicalize"}
    /\ json' = toJSON(target)
    /\ last' = [op |-> "toJSON", prevOp |-> last.op, n |-> 0, before |-> target]
    /\ UNCHANGED <<decl, target, copy, popVars, valVars, lcVars, dbVars>>

\* Model.create(json) with what toJSON() just returned
CreateFrom ==
    /\ last.op = "toJSON"
    /\ copy' = fromDataSingle(decl, json)
    /\ last' = [last EXCEPT !.op = "createFrom", !.prevOp = "toJSON"]
    /\ UNCHANGED <<decl, target, json, popVars, valVars, lcVars, dbVars>>

\* instance.canonicalize(), at most twice in a row
Canonicalize ==
    /\ last.op \in {"create", "write", "canonicalize"}
    /\ last.n < 2
    /\ target' = canonicalize(target)
    /\ last' = [op |-> "canonicalize", prevOp |-> last.op, n |-> last.n + 1,
                before |-> target]
    /\ UNCHANGED <<decl, json, copy, popVars, valVars, lcVars, dbVars>>

SerNext == ToJSON \/ CreateFrom \/ Canonicalize

SpecSerialize == SerInit /\ [][SerNext]_vars

----------------------------------------------------------------------------
(* Property writes and deletes through the proxy, and fill, on one         *)
(* instance                                                                *)

MaxCalls == 2     \* writes, deletes and fill calls made on the instance

\* the values assigned to a property through the proxy
WriteValues(propKey) ==
    CASE propKey = "num" -> {Num(1), Null, Undef}
      [] propKey = "coin" -> {Emb(Instantiate(CoinModel))}
      [] propKey \in {"id", "_id"} -> {Hex(1), Oid(2), Null}
      [] OTHER -> {Str("a")}

WriteKeys == {"num", "coin", "id", "_id", "_note"}

DeleteKeys == {"num", "id", "_id", "_note"}

\* what a data record handed to fill holds under a key
FillValue(key) ==
    CASE key = "num" -> Num(2)
      [] key = "coin" -> Obj(<<"value">>, [value |-> Num(1)])
      [] key = "_id" -> Hex(1)
      [] key = "id" -> Hex(2)
      [] OTHER -> Str("b")

FillKeyOrder == <<"num", "coin", "_id", "id", "label", "unknown">>

MaxFillKeys == 2  \* keys of a data record handed to fill

\* the arguments of fill: null, bare native identifiers, and the data
\* records over the keys of FillKeyOrder
FillInputs ==
    {Null, Hex(1), Oid(2)} \cup
    {LET in(key) == key \in S
         keys == SelectSeq(FillKeyOrder, in)
     IN Obj(keys, [key \in S |-> FillValue(key)]) :
        S \in {T \in SUBSET {FillKeyOrder[i] : i \in 1..Len(FillKeyOrder)} :
                    Cardinality(T) <= MaxFillKeys}}

\* a call on the instance: before is the instance as the call found it,
\* idWritten the last value written to id or _id, onlyWrites whether every
\* call so far was a property write
CallOn(op, key, arg, idWritten, onlyWrites) ==
    [op |-> op, key |-> key, arg |-> arg, before |-> target, n |-> last.n + 1,
     thrown |-> FALSE, idWritten |-> idWritten, onlyWrites |-> onlyWrites]

InsInit ==
    /\ decl \in {PurseModel(Fn(1), Undef, FALSE, getters) : getters \in {{}, {"label"}}}
    /\ target = Instantiate(decl)
    /\ last = [op |-> "create", key |-> "", arg |-> Undef, before |-> <<>>, n |-> 0,
               thrown |-> FALSE, idWritten |-> Undef, onlyWrites |-> TRUE]
    /\ json = <<>>
    /\ copy = <<>>
    \* populate is not called, no save or delete cycle runs, no backend call
    /\ documents = <<>> /\ input = <<>> /\ schema = <<>>
    /\ loads = <<>> /\ loadPromises = <<>> /\ completion = "none"
    /\ inst = <<>> /\ outcome = <<>> /\ evaluated = <<>>
    /\ owner = <<>> /\ ops = <<>> /\ events = <<>> /\ store = <<>>
    /\ coll = {} /\ dels = <<>> /\ driver = <<>>

\* instance[propKey] = v
Write ==
    /\ last.n < MaxCalls
    /\ \E propKey \in WriteKeys : \E v \in WriteValues(propKey) :
          /\ target' = ProxyWrite(target, propKey, v).doc
          /\ last' = CallOn("write", propKey, v,
                            IF propKey \in {"id", "_id"} THEN v ELSE last.idWritten,
                            last.onlyWrites)
    /\ UNCHANGED <<decl, json, copy, popVars, valVars, lcVars, dbVars>>

\* delete instance[propKey]
DeleteProp ==
    /\ last.n < MaxCalls
    /\ \E propKey \in DeleteKeys :
          /\ target' = ProxyDelete(target, propKey)
          /\ last' = CallOn("delete", propKey, Undef, last.idWritten, FALSE)
    /\ UNCHANGED <<decl, json, copy, popVars, valVars, lcVars, dbVars>>

\* instance.fill(newValues)
Fill ==
    /\ last.n < MaxCalls
    /\ \E newValues \in FillInputs :
          LET r == fill(target, newValues)
          IN /\ target' = r.doc
             /\ last' = [CallOn("fill", "", newValues, last.idWritten, FALSE)
                            EXCEPT !.thrown = r.thrown]
    /\ UNCHANGED <<decl, json, copy, popVars, valVars, lcVars, dbVars>>

InsNext == Write \/ DeleteProp \/ Fill

SpecInstance == InsInit /\ [][InsNext]_vars

----------------------------------------------------------------------------
(* MongoClient.delete(collection, id).  An id is 0 for null and 1..NumIds  *)
(* otherwise.                                                              *)

MaxDeletes == 2   \* delete(collection, id) calls

NullId == 0

\* resolve(value) and reject(error) on the promise of a call: a promise that
\* has settled stays as it is
Settle(call, status, result) ==
    IF call.status = "pending"
    THEN [call EXCEPT !.status = status, !.result = result]
    ELSE call

DbInit ==
    /\ coll \in SUBSET (1..NumIds)
    /\ dels = <<>>
    /\ driver = <<>>
    \* no document is populated, validated, saved or serialized
    /\ documents = <<>> /\ input = <<>> /\ schema = <<>>
    /\ loads = <<>> /\ loadPromises = <<>> /\ completion = "none"
    /\ inst = <<>> /\ outcome = <<>> /\ evaluated = <<>>
    /\ owner = <<>> /\ ops = <<>> /\ events = <<>> /\ store = <<>>
    /\ decl = <<>> /\ target = <<>> /\ json = <<>> /\ copy = <<>> /\ last = <<>>

\* client.delete(collection, id): the executor of the promise runs at once;
\* resolve(0) for a null id does not return, so the executor goes on and
\* hands deleteOne({ _id: id }) to the driver
DeleteCall ==
    /\ Len(dels) < MaxDeletes
    /\ \E id \in {NullId} \cup 1..NumIds :
          LET call == [id |-> id, status |-> "pending", result |-> 0]
          IN /\ dels' = Append(dels, IF id = NullId THEN Settle(call, "fulfilled", 0)
                                     ELSE call)
             /\ driver' = Append(driver, [call |-> Len(dels) + 1, id |-> id,
                                          status |-> "pending"])
    /\ UNCHANGED <<coll, popVars, valVars, lcVars, insVars>>

\* the driver completes a deleteOne: the callback resolves with deletedCount
DriverDeletes ==
    \E c \in DOMAIN driver :
        /\ driver[c].status = "pending"
        /\ driver' = [driver EXCEPT ![c].status = "done"]
        /\ coll' = coll \ {driver[c].id}
        /\ dels' = [dels EXCEPT ![driver[c].call] =
                        Settle(@, "fulfilled", IF driver[c].id \in coll THEN 1 ELSE 0)]
        /\ UNCHANGED <<popVars, valVars, lcVars, insVars>>

\* the driver fails a deleteOne: the callback rejects with the driver's error
DriverFails ==
    \E c \in DOMAIN driver :
        /\ driver[c].status = "pending"
        /\ driver' = [driver EXCEPT ![c].status = "failed"]
        /\ dels' = [dels EXCEPT ![driver[c].call] = Settle(@, "rejected", -1)]
        /\ UNCHANGED <<coll, popVars, valVars, lcVars, insVars>>

DbNext == DeleteCall \/ DriverDeletes \/ DriverFails

SpecMongoDelete == DbInit /\ [][DbNext]_vars

----------------------------------------------------------------------------
(* Claims about populate, checked under SpecPopulate *)

RefTypes == {"User", "Group"}

\* the type.loadById calls issued for one (type, id) pair
LoadsFor(t, v) ==
    {l \in DOMAIN loads :
        loads[l].type = t /\ loads[l].id.k = "id" /\ loads[l].id.val = v}

\* some scanned reference field of some input document mentions id v of type t
Mentioned(t, v) ==
    LET reqs == Requests(input, KeyDefs(input[1], schema))
    IN \E r \in 1..Len(reqs) :
          reqs[r].type = t /\ reqs[r].id.k = "id" /\ reqs[r].id.val = v

\* C1: within one populate call exactly one type.loadById call is issued for
\* every (type, id) pair that the documents mention, however many documents
\* or array slots mention it.
C1_OneLoadPerTypeAndId ==
    completion # "none" =>
        \A t \in RefTypes, v \in 1..NumIds :
            Cardinality(LoadsFor(t, v)) = IF Mentioned(t, v) THEN 1 ELSE 0

\* C2: once populate has fulfilled, every array-of-reference field holds the
\* loaded documents in the order of its original id list, whatever the order
\* in which the loads completed, and the original id list is kept on it.
C2_ArrayKeepsIdOrder ==
    completion = "fulfilled" =>
        \A i \in DOMAIN documents :
            input[i].friends.k = "arr" =>
                LET f == documents[i].friends
                IN /\ f.k = "arr"
                   /\ f.hasIdList
                   /\ f.idList = input[i].friends.items
                   /\ f.items = [j \in 1..Len(f.idList) |-> LoadedDoc(f.idList[j])]

\* C3: when any load triggered by the call has failed, the completion of the
\* call has failed: it is rejected and is never fulfilled.
C3_AnyLoadFailureFailsPopulate ==
    (\E l \in DOMAIN loads : loads[l].status = "rejected") => completion = "rejected"

C3_Witness ==
    /\ \E l \in DOMAIN loads : loads[l].status = "rejected"
    /\ \E l \in DOMAIN loads : loads[l].status = "fulfilled"
    /\ completion = "rejected"

\* C4 as stated: whenever the completion has settled (fulfilled or rejected),
\* no load triggered by the call is still in flight.
C4_SettledOnlyAfterAllLoads ==
    completion \in {"fulfilled", "rejected"} =>
        \A l \in DOMAIN loads : loads[l].status # "inflight"

\* C4 as amended: whenever the completion has fulfilled, every load triggered
\* by the call has settled (none is in flight); a rejection is not covered.
C4_FulfilledOnlyAfterAllLoads ==
    completion = "fulfilled" =>
        \A l \in DOMAIN loads : loads[l].status # "inflight"

C4_Witness ==
    /\ completion = "fulfilled"
    /\ Len(loads) >= 2
    /\ \A l \in DOMAIN loads : loads[l].status = "fulfilled"

\* C19: once populate has fulfilled, no input document still holds a bare
\* identifier in its scalar reference field: every document whose field held
\* an identifier holds the loaded document instead, whatever the first
\* document of the input holds in that field; and no load is issued for a
\* document whose field is null.
C19_EveryScalarReferenceResolved ==
    /\ completion = "fulfilled" =>
          \A i \in DOMAIN documents :
              input[i].author.k = "id" => documents[i].author = LoadedDoc(input[i].author)
    /\ \A l \in DOMAIN loads : loads[l].id.k # "null"

----------------------------------------------------------------------------
(* Claims about validate, checked under SpecValidate *)

Unset(v) == v.k \in {"null", "undef"}

\* the value breaks a constraint the field declares
Violates(sch, v) ==
    \/ ~Unset(v) /\ ~isValidType(v, sch)
    \/ sch.hasMatch /\ v.k = "str" /\ v.s \notin sch.match
    \/ sch.hasChoices /\ ~Unset(v) /\ v \notin sch.choices
    \/ sch.hasMin /\ v.k = "num" /\ v.n < sch.min
    \/ sch.hasMax /\ v.k = "num" /\ v.n > sch.max
    \/ sch.hasValidate /\ v \notin sch.accept

\* the value meets every constraint the field declares; an unset value has
\* no type and no magnitude, so it meets the type and the bounds
RECURSIVE SatisfiesAll(_)
Satisfies(sch, v) ==
    /\ Unset(v) \/ isValidType(v, sch)
    /\ sch.hasMatch /\ v.k = "str" => v.s \in sch.match
    /\ sch.hasChoices => v \in sch.choices
    /\ sch.hasMin /\ v.k = "num" => v.n >= sch.min
    /\ sch.hasMax /\ v.k = "num" => v.n <= sch.max
    /\ sch.hasValidate => v \in sch.accept
    /\ v.k = "emb" => SatisfiesAll(v.doc)

SatisfiesAll(d) == \A i \in 1..Len(d.keys) : Satisfies(d.schema[d.keys[i]], d.values[d.keys[i]])

\* C8: validate() fails whenever the value assigned to the field (a value
\* checked against the field's schema, that is any value but an embedded
\* document, which validates itself) violates a constraint the field
\* declares: type, pattern, choices, min, max or custom predicate, for every
\* declared bound value.
C8_ViolationRejected ==
    /\ outcome.err # "none"
    /\ inst.values.f.k # "emb"
    /\ Violates(inst.schema.f, inst.values.f)
    => outcome.err # "ok"

\* C9: validate() does not fail on an instance whose field values all
\* satisfy their declared constraints, unset (null or undefined) fields
\* included.
C9_ValidAccepted ==
    outcome.err # "none" /\ SatisfiesAll(inst) => outcome.err = "ok"

\* the position of a check in the order of C16
CheckRank(check) == CHOOSE i \in 1..Len(CheckOrder) : CheckOrder[i] = check

\* the constraints of the field that the value violates
Violated(sch, v) ==
    {check \in {CheckOrder[i] : i \in 1..Len(CheckOrder)} :
        CASE check = "type" -> ~Unset(v) /\ ~isValidType(v, sch)
          [] check = "match" -> sch.hasMatch /\ v.k = "str" /\ v.s \notin sch.match
          [] check = "choices" -> sch.hasChoices /\ v \notin sch.choices
          [] check = "min" -> sch.hasMin /\ v.k = "num" /\ v.n < sch.min
          [] check = "max" -> sch.hasMax /\ v.k = "num" /\ v.n > sch.max
          [] OTHER -> sch.hasValidate /\ v \notin sch.accept}

\* C16: for a field value that is set and is not an embedded document,
\* validate() applies its checks in the order type, pattern, choices, minimum, maximum,
\* custom predicate and raises at the first that fails: the error reported
\* is that of the earliest constraint in this order that the value
\* violates, and no later check (the custom predicate in particular) is
\* evaluated.
C16_EarliestViolationReported ==
    /\ outcome.err # "none"
    /\ inst.values.f.k # "emb"
    /\ ~Unset(inst.values.f)
    /\ Violated(inst.schema.f, inst.values.f) # {}
    => LET first == CHOOSE c \in Violated(inst.schema.f, inst.values.f) :
                        \A o \in Violated(inst.schema.f, inst.values.f) :
                            CheckRank(c) <= CheckRank(o)
       IN /\ outcome.err = first
          /\ \A i \in 1..Len(evaluated) : CheckRank(evaluated[i]) <= CheckRank(first)

----------------------------------------------------------------------------
(* Claims about the save and delete cycles, checked under SpecLifecycle *)

\* the events of call k, in order
EventsOf(k) ==
    LET ofCall(e) == e.op = k
    IN SelectSeq(events, ofCall)

\* the document and the embedded documents reachable from it
RECURSIVE Reachable(_, _)
Reachable(d, path) ==
    {path} \cup UNION {
        LET v == d.values[key]
        IN IF v.k = "emb" THEN Reachable(v.doc, Append(path, Step(key, 0)))
           ELSE IF v.k = "arr"
           THEN UNION {IF v.items[j].k = "emb"
                       THEN Reachable(v.items[j].doc, Append(path, Step(key, j)))
                       ELSE {} : j \in 1..Len(v.items)}
           ELSE {} : key \in DOMAIN d.values}

\* where in E the event ev on the document at path occurs
At(E, ev, path) == {i \in 1..Len(E) : E[i].ev = ev /\ E[i].path = path}

IsPrefix(p, q) == Len(p) <= Len(q) /\ SubSeq(q, 1, Len(p)) = p

\* C5: a delete call that completes has run preDelete, the backend delete and
\* postDelete in that order, once each, the two hooks also once on every
\* embedded document reachable from the document (single field or array
\* element); no call runs one of them twice or out of this order, and a save
\* call runs no delete hook.
C5_DeleteHooksInOrder ==
    \A k \in DOMAIN ops :
        LET E == EventsOf(k)
            docs == Reachable(ops[k].doc, <<>>)
        IN /\ ops[k].kind = "save" =>
                \A i \in 1..Len(E) : E[i].ev \notin {"preDelete", "delete", "postDelete"}
           /\ ops[k].kind = "delete" =>
                /\ Cardinality(At(E, "delete", <<>>)) <= 1
                /\ \A p \in docs :
                      /\ Cardinality(At(E, "preDelete", p)) <= 1
                      /\ Cardinality(At(E, "postDelete", p)) <= 1
                      /\ \A i \in At(E, "delete", <<>>) :
                            \E j \in At(E, "preDelete", p) : j < i
                      /\ \A i \in At(E, "postDelete", p) :
                            \E j \in At(E, "delete", <<>>) : j < i
                /\ ops[k].status = "fulfilled" =>
                      /\ Cardinality(At(E, "delete", <<>>)) = 1
                      /\ \A p \in docs : /\ Cardinality(At(E, "preDelete", p)) = 1
                                         /\ Cardinality(At(E, "postDelete", p)) = 1

\* a save followed by a delete, both completed, on a document with a single
\* embedded document and an array of embedded documents
C5_Witness ==
    /\ Len(ops) = 2
    /\ ops[1].kind = "save" /\ ops[1].status = "fulfilled"
    /\ ops[2].kind = "delete" /\ ops[2].status = "fulfilled"
    /\ ops[2].doc.values.emb.k = "emb"
    /\ Len(ops[2].doc.values.contents.items) = MaxEmb

\* the phases of a save cycle, in order
Rank(ev) ==
    CASE ev = "preValidate" -> 1
      [] ev = "validate" -> 2
      [] ev = "postValidate" -> 3
      [] ev = "canonicalize" -> 4
      [] ev = "preSave" -> 5
      [] ev = "persist" -> 6
      [] ev = "postSave" -> 7
      [] OTHER -> 0

SaveHooks == {"preValidate", "postValidate", "preSave", "postSave"}

\* the positions in E of hook h on the documents at or under path p
Under(E, h, p) == {i \in 1..Len(E) : E[i].ev = h /\ IsPrefix(p, E[i].path)}

\* a set of positions with no gap
Contiguous(S) ==
    S = {} \/ \A m \in 1..Cardinality(S) - 1 :
                 LET lo == CHOOSE i \in S : \A j \in S : i <= j
                 IN lo + m \in S

\* paths of two elements of the same array field, the first at the lower index
EarlierElement(p, q) ==
    /\ p # <<>> /\ Len(p) = Len(q)
    /\ SubSeq(p, 1, Len(p) - 1) = SubSeq(q, 1, Len(q) - 1)
    /\ p[Len(p)].f = q[Len(q)].f
    /\ p[Len(p)].i < q[Len(q)].i

\* C6: the events of a save call are in the phase order preValidate,
\* validate, postValidate, canonicalize, preSave, backend persist, postSave,
\* no event of a later phase before one of an earlier phase; within a hook
\* phase every reachable document is visited at most once, array elements in
\* index order and depth-first (the documents under one embedded document
\* are visited next to each other); a save that completes has run every
\* phase, each hook once on every reachable document.
C6_SavePhasesInOrder ==
    \A k \in DOMAIN ops :
        ops[k].kind = "save" =>
            LET E == EventsOf(k)
                docs == Reachable(ops[k].doc, <<>>)
            IN /\ \A i \in 1..Len(E) : Rank(E[i].ev) >= 1
               /\ \A i \in 1..Len(E) - 1 : Rank(E[i].ev) <= Rank(E[i + 1].ev)
               /\ \A h \in SaveHooks :
                      /\ \A p \in docs : Cardinality(At(E, h, p)) <= 1
                      /\ \A i, j \in Under(E, h, <<>>) :
                            EarlierElement(E[i].path, E[j].path) => i < j
                      /\ \A p \in docs : Contiguous(Under(E, h, p))
               /\ ops[k].status = "fulfilled" =>
                      /\ \A h \in SaveHooks : \A p \in docs : Cardinality(At(E, h, p)) = 1
                      /\ \A ev \in {"validate", "canonicalize", "persist"} :
                            Cardinality(At(E, ev, <<>>)) = 1

\* a completed save of a document holding a single embedded document, a
\* nested embedded document and a full array of embedded documents
C6_Witness ==
    \E k \in DOMAIN ops :
        /\ ops[k].kind = "save" /\ ops[k].status = "fulfilled"
        /\ ops[k].doc.values.emb.k = "emb"
        /\ ops[k].doc.values.purse.k = "emb"
        /\ Len(ops[k].doc.values.contents.items) = MaxEmb

\* what C7 promises of call k when it failed in one of the given phases: the
\* backend save was not invoked, no later phase ran, and the stored record
\* is the one from before the call
AbortedCleanly(k, phases) ==
    ops[k].kind = "save" /\ ops[k].failedAt \in phases =>
        LET E == EventsOf(k)
        IN /\ At(E, "persist", <<>>) = {}
           /\ \A i \in 1..Len(E) : Rank(E[i].ev) <= Rank(ops[k].failedAt)
           /\ \A i \in 1..Len(E) : E[i].ev # "postSave"
           /\ k = Len(ops) => store = ops[k].storeBefore

\* C7 as stated: when validation or canonicalization fails or any hook
\* raises during a save, the backend save is never invoked for that call, no
\* later phase runs and the stored record is unchanged.
C7_AnyFailureNeverPersists ==
    \A k \in DOMAIN ops :
        AbortedCleanly(k, {"preValidate", "validate", "postValidate", "canonicalize",
                           "preSave", "postSave"})

\* C7 as amended: the same, for a failure of validation or canonicalization
\* or of a hook that runs before the backend save (preValidate,
\* postValidate, preSave); every invalid document fails validation.
C7_EarlyFailureNeverPersists ==
    \A k \in DOMAIN ops :
        /\ AbortedCleanly(k, {"preValidate", "validate", "postValidate", "canonicalize",
                              "preSave"})
        /\ ops[k].kind = "save" /\ validate(ops[k].doc).err # "ok" =>
              ops[k].status = "rejected" /\ At(EventsOf(k), "persist", <<>>) = {}

\* a save that failed validation after an earlier save had stored a record
C7_Witness ==
    /\ Len(ops) = 2
    /\ ops[1].kind = "save" /\ ops[1].status = "fulfilled"
    /\ ops[2].kind = "save" /\ ops[2].failedAt = "validate"
    /\ store # <<>>

\* an embedded document held directly by d, in a single field or as an array
\* element, breaks a constraint of its own schema
HoldsInvalidEmbedded(d) ==
    \E key \in DOMAIN d.values :
        LET v == d.values[key]
            bad(e) == /\ e.k = "emb"
                      /\ \E f \in DOMAIN e.doc.values :
                            Violates(e.doc.schema[f], e.doc.values[f])
        IN \/ bad(v)
           \/ v.k = "arr" /\ \E j \in 1..Len(v.items) : bad(v.items[j])

\* C10: a save of a document that holds an embedded document violating one
\* of its own field constraints, as the value of a single field or as an
\* element of an array field, is rejected and nothing is persisted.
C10_InvalidEmbeddedRejected ==
    \A k \in DOMAIN ops :
        ops[k].kind = "save" /\ HoldsInvalidEmbedded(ops[k].doc) =>
            /\ ops[k].status # "fulfilled"
            /\ At(EventsOf(k), "persist", <<>>) = {}

----------------------------------------------------------------------------
(* Claims about create, toJSON, create(data) and canonicalize, checked     *)
(* under SpecSerialize                                                     *)

\* the value an instance holds for a field: undefined when it has none
ValueAt(d, key) == IF key \in DOMAIN d.values THEN d.values[key] ELSE Undef

\* what toJSON promises for one schema field of an instance that create()
\* has just returned: the key is in the output, a field that holds no value
\* shows as [] when its type is an array and as null otherwise, and an
\* array-typed field without a declared default shows as []
Serialized(x, out, key) ==
    /\ key \in DOMAIN out.map
    /\ ValueAt(x, key) = Undef =>
          out.map[key] = IF x.schema[key].isArray THEN Arr(<<>>) ELSE Null
    /\ x.schema[key].isArray /\ ~x.schema[key].hasDefault => out.map[key] = Arr(<<>>)

\* C11 as stated: the output of toJSON() on an instance obtained from
\* create() with no data has a key for every field of the instance's
\* schema, with [] for an unset array-typed field and null for any other
\* unset field.
C11_EverySchemaFieldSerialized ==
    last.op = "toJSON" /\ last.prevOp = "create" =>
        \A key \in DOMAIN target.schema : Serialized(target, json, key)

\* C11 as amended: the same for every schema field that is not declared
\* private; a private field has no key in the output.
C11_EveryPublicFieldSerialized ==
    last.op = "toJSON" /\ last.prevOp = "create" =>
        \A key \in DOMAIN target.schema :
            IF target.schema[key].private
            THEN key \notin DOMAIN json.map
            ELSE Serialized(target, json, key)

\* toJSON() right after create(), on a model with a private field and with
\* unset array and non-array fields
C11_Witness ==
    /\ last.op = "toJSON" /\ last.prevOp = "create"
    /\ target.schema["secret"].private
    /\ ValueAt(target, "num") = Undef
    /\ json.map["num"] = Null
    /\ json.map["_id"] = Null
    /\ ~target.schema["tags"].hasDefault
    /\ json.map["tags"] = Arr(<<>>)

\* C12: filling a fresh instance of the same model with toJSON(x) does not
\* fail and yields an instance whose value for every schema field other than
\* the identifier equals x's value for that field.
C12_RoundTrip ==
    last.op = "createFrom" =>
        /\ ~copy.thrown
        /\ \A key \in DOMAIN last.before.schema \ {"_id"} :
              ValueAt(copy.doc, key) = ValueAt(last.before, key)

\* C13: canonicalize() is idempotent: the values map after the second of two
\* calls in a row equals the values map after the first, the values of the
\* embedded documents held in it included.
C13_CanonicalizeIdempotent ==
    last.op = "canonicalize" /\ last.n = 2 => target.values = last.before.values

\* two calls in a row on an instance whose date field and whose embedded
\* document's date field held numeric timestamps, which the first call
\* turned into dates
C13_Witness ==
    /\ last.op = "canonicalize" /\ last.n = 2
    /\ target.values["when"] = DateV(1)
    /\ target.values["coin"].k = "emb"
    /\ target.values["coin"].doc.values["at"] = DateV(1)

\* the default a declaration computes: the literal, or what the factory
\* returns; undefined when no default is declared
ComputedDefault(e) ==
    IF ~e.hasDefault THEN Undef
    ELSE IF e.default.k = "fn" THEN Num(e.default.n)
    ELSE e.default

\* C15: immediately after create() every declared field holds its computed
\* default (the literal, or the result of calling the factory), and an
\* array-typed field without an explicit default holds an empty sequence.
C15_DefaultsAtCreation ==
    last.op = "create" =>
        \A i \in 1..Len(decl.fields) :
            LET e == decl.decls[decl.fields[i]]
            IN ValueAt(target, decl.fields[i]) =
                  IF e.isArray /\ ~e.hasDefault THEN Arr(<<>>) ELSE ComputedDefault(e)

----------------------------------------------------------------------------
(* Claims about the proxy and fill, checked under SpecInstance *)

\* C14: after any sequence of create, property writes (writes to id and _id
\* included), property deletes and fill on an instance, every key of the
\* values map has an entry in the schema map and _id is in the schema.
C14_ValuesWithinSchema ==
    /\ \A key \in DOMAIN target.values : key \in DOMAIN target.schema
    /\ "_id" \in DOMAIN target.schema

\* the keys of a data record
Named(newValues) == {newValues.keys[i] : i \in 1..Len(newValues.keys)}

\* the values of the given schema fields are what they were before the call
Kept(keys) == \A key \in keys : ValueAt(target, key) = ValueAt(last.before, key)

C18_IdAliasesUnderscoreId ==
    last.onlyWrites =>
        /\ ProxyGet(target, "id") = last.idWritten
        /\ ProxyGet(target, "_id") = last.idWritten
        /\ last.op = "write" /\ last.key \in DOMAIN last.before.schema \ {"_id"} =>
              /\ target.values = Put(last.before.values, last.key, last.arg)
              /\ target.schema = last.before.schema

\* a write to id after a write to _id, both names reading the later value
C18_Witness ==
    /\ last.onlyWrites /\ last.n = 2
    /\ last.op = "write" /\ last.key = "id" /\ last.arg = Oid(2)
    /\ ValueAt(last.before, "_id") = Hex(1)
    /\ ProxyGet(target, "_id") = Oid(2)

----------------------------------------------------------------------------
(* Claims about MongoClient.delete, checked under SpecMongoDelete *)

\* the deleteOne operations call k handed to the driver
DriverOpsOf(k) == {c \in DOMAIN driver : driver[c].call = k}

\* C20: delete(collection, id) with a null id completes with count 0 and
\* hands no delete operation to the database; with any other id it hands
\* exactly one deleteOne for that id to the driver and completes with the
\* deleted count the driver reports, or fails with the driver's error.
C20_NullIdDeletesNothing ==
    \A k \in DOMAIN dels :
        IF dels[k].id = NullId
        THEN /\ dels[k].status = "fulfilled" /\ dels[k].result = 0
             /\ DriverOpsOf(k) = {}
        ELSE /\ Cardinality(DriverOpsOf(k)) = 1
             /\ \A c \in DriverOpsOf(k) :
                   /\ driver[c].id = dels[k].id
                   /\ driver[c].status = "pending" <=> dels[k].status = "pending"
                   /\ driver[c].status = "done" <=>
                         dels[k].status = "fulfilled" /\ dels[k].result \in {0, 1}
                   /\ driver[c].status = "failed" <=>
                         dels[k].status = "rejected" /\ dels[k].result = -1

====
